---- MODULE Spec2Model ----
(***************************************************************************)
(* The Honest Plate (app.py): TDEE calculator, calibration engine and the  *)
(* Streamlit script that drives the three worksheets of Honest_Plate_DB.   *)
(*                                                                         *)
(* Numbers are exact rationals kept as scaled integers:                    *)
(*   factors in hundredths (100 = 1.0), Weight_kg in tenths of a kg,       *)
(*   activity multipliers in thousandths, bmr in quarters.                 *)
(* The arithmetic is exact; the rounding error of the source's float64     *)
(* operations (at most a few ulp) is not modelled.                         *)
(***************************************************************************)
EXTENDS Integers, Sequences, FiniteSets, TLC

VARIABLES
  User_Profiles,   \* worksheet "User_Profiles": the rows get_all_records returns
  Weight_Logs,     \* worksheet "Weight_Logs"
  Food_Logs,       \* worksheet "Food_Logs"
  session_state,   \* st.session_state: a dict, keys present are its DOMAIN
  page,            \* what the last script run rendered: login, setup or dashboard
  today,           \* datetime.now() as a day number
  calibration,     \* the last run_calibration_engine call shown by st.info, or NoCall
  tdee_call        \* a call of calculate_tdee: its arguments and its return value

vars == <<User_Profiles, Weight_Logs, Food_Logs, session_state, page, today,
          calibration, tdee_call>>

store == <<User_Profiles, Weight_Logs, Food_Logs>>

-----------------------------------------------------------------------------
(* Bounds of the model *)

MaxProfiles == 2      \* rows of User_Profiles
MaxMeals == 1         \* meals saved by the script
MaxWeighIns == 1      \* weights logged by the script
MaxDay == 5           \* last day the clock reaches
MaxPutWeights == 2    \* rows put into Weight_Logs beyond the rows it starts with
MaxPutFoods == 1      \* rows put into Food_Logs beyond the rows it starts with

-----------------------------------------------------------------------------
(* Cells of a worksheet as get_all_records returns them: a number or a     *)
(* string.  A date that pd.to_datetime parses is kept as its day number.   *)

IntCell(n) == [t |-> "int", n |-> n]
StrCell(s) == [t |-> "str", s |-> s]
DateCell(d) == [t |-> "date", d |-> d]

IsNum(c) == c.t = "int"

\* str(x) / .astype(str): the decimal form of a number, a string unchanged
ToStr(c) == IF c.t = "int" THEN ToString(c.n) ELSE c.s

\* gspread numericise on read: a cell whose text is a decimal integer comes
\* back as that integer, any other text as the text
MaxNumericId == 9
Numericise(s) ==
  IF \E n \in 0..MaxNumericId : ToString(n) = s
  THEN IntCell(CHOOSE n \in 0..MaxNumericId : ToString(n) = s)
  ELSE StrCell(s)

\* int(x) of the rational n/d, d > 0: truncation toward zero
Trunc(n, d) == IF n >= 0 THEN n \div d ELSE -((-n) \div d)

Abs(n) == IF n >= 0 THEN n ELSE -n

\* round(n/d) to the nearest integer, ties to even (round of a float64), d > 0
RoundHalfEven(n, d) ==
  LET q == n \div d
      r == n % d
  IN  IF 2 * r < d THEN q
      ELSE IF 2 * r > d THEN q + 1
      ELSE IF q % 2 = 0 THEN q ELSE q + 1

-----------------------------------------------------------------------------
(* calculate_tdee, app.py 41-54 *)

\* the multipliers dict, in thousandths
multipliers ==
  [Sedentary |-> 1200, LightlyActive |-> 1375, ModeratelyActive |-> 1550, VeryActive |-> 1725]

ActivityKey(activity) ==
  CASE activity = "Sedentary" -> "Sedentary"
    [] activity = "Lightly Active" -> "LightlyActive"
    [] activity = "Moderately Active" -> "ModeratelyActive"
    [] activity = "Very Active" -> "VeryActive"
    [] OTHER -> "none"

\* multipliers.get(activity, 1.2)
DefaultMultiplier == 1200
MultiplierGet(activity) ==
  IF ActivityKey(activity) \in DOMAIN multipliers
  THEN multipliers[ActivityKey(activity)]
  ELSE DefaultMultiplier

\* bmr in quarters: 4 * (10*weight + 6.25*height - 5*age + 5 | - 161)
Bmr4(age, gender, height, weight) ==
  IF gender = "Male"
  THEN 40 * weight + 25 * height - 20 * age + 20
  ELSE 40 * weight + 25 * height - 20 * age - 644

calculate_tdee_floor(age, gender, height, weight, activity) ==
  (Bmr4(age, gender, height, weight) * MultiplierGet(activity)) \div 4000

calculate_tdee(age, gender, height, weight, activity) ==
  Trunc(Bmr4(age, gender, height, weight) * MultiplierGet(activity), 4000)

-----------------------------------------------------------------------------
(* run_calibration_engine, app.py 77-124 *)

RECURSIVE SumOver(_, _)
\* sum of f[i] over the index set I
SumOver(f, I) ==
  IF I = {} THEN 0
  ELSE LET i == CHOOSE j \in I : TRUE IN f[i] + SumOver(f, I \ {i})

MinOf(S) == CHOOSE m \in S : \A k \in S : m <= k

\* df[df["User_ID"].astype(str) == str(user_id)]
FilterUserRaw(rows, user_id) == SelectSeq(rows, LAMBDA r : r.User_ID = StrCell(user_id))

FilterUserNone(rows, user_id) == rows

FilterUser(rows, user_id) == SelectSeq(rows, LAMBDA r : ToStr(r.User_ID) = user_id)

\* st.session_state.get('profile', {}).get('TDEE', 2000)
DefaultTDEE == 2000
SessionTDEE(session) ==
  IF "profile" \in DOMAIN session THEN session["profile"].TDEE ELSE DefaultTDEE

KcalPerTenthKg == 770     \* slope * 7700 with Weight_kg in tenths
MinSamplesFour == 5 - 1
MinSamples == 5
ClampLow == 80
ClampHigh == 150
Neutral == 100

\* f"{slope:.3f}" of the slope whose thousandths are m; neg: the slope is below zero
FormatSlope(m, neg) ==
  LET a == Abs(m)
      frac == a % 1000
      pad == IF frac < 10 THEN "00" ELSE IF frac < 100 THEN "0" ELSE ""
  IN  (IF neg THEN "-" ELSE "") \o ToString(a \div 1000) \o "." \o pad \o ToString(frac)

Return(fac, msg) == [kind |-> "return", fac |-> fac, msg |-> msg]
Raise == [kind |-> "raise"]

\* max(0.8, min(ratio, 1.5)) then round(., 2) of the ratio num/den, den > 0
ClampRoundUnclamped(num, den) == RoundHalfEven(100 * num, den)

ClampRound(num, den) ==
  IF 2 * num > 3 * den THEN ClampHigh
  ELSE IF 5 * num < 4 * den THEN ClampLow
  ELSE RoundHalfEven(100 * num, den)

\* lines 100-120: the regression and the factor, for the user's rows w and f.
\* env.svd is what LAPACK does with the NaN matrix of a fit whose day indexes
\* are all equal (0/0 in the column scaling of np.polyfit): it either reports
\* non-convergence (LinAlgError) or returns NaN coefficients.
Regression(w, f, weight_data, tdee, env) ==
  IF \E i \in DOMAIN w : w[i].Date.t # "date" THEN Raise        \* pd.to_datetime
  ELSE
  LET n == Len(w)
      I == DOMAIN w
      d0 == MinOf({w[i].Date.d : i \in I})
      x == [i \in I |-> w[i].Date.d - d0]                          \* DayIndex
  IN
  IF \E i \in DOMAIN weight_data : ~IsNum(weight_data[i].Weight_kg)
  THEN Raise                                \* object column: polyfit cannot cast
  ELSE
  LET y == [i \in I |-> w[i].Weight_kg.n]
      Sx == SumOver(x, I)
      Sy == SumOver(y, I)
      Sxy == SumOver([i \in I |-> x[i] * y[i]], I)
      Sxx == SumOver([i \in I |-> x[i] * x[i]], I)
      D == n * Sxx - Sx * Sx                 \* slope = N / D tenths of kg per day
      N == n * Sxy - Sx * Sy
      degenerate == D = 0
  IN
  IF degenerate /\ env.svd = "raise" THEN Raise
  ELSE IF \E i \in DOMAIN f : ~IsNum(f[i].Final_Cals) THEN Raise  \* mean of str
  ELSE
  LET cnt == Len(f)
      total == SumOver([i \in DOMAIN f |-> f[i].Final_Cals.n], DOMAIN f)
      positive == cnt > 0 /\ total > 0       \* avg_reported_cals > 0 (NaN > 0 is False)
      msg == IF degenerate THEN "Slope: nan kg/day"
             ELSE "Slope: " \o FormatSlope(RoundHalfEven(100 * Abs(N), D), N < 0) \o " kg/day"
      fac == IF ~positive THEN Neutral
             ELSE IF degenerate THEN ClampLow            \* max(0.8, min(nan, 1.5))
             ELSE ClampRound((tdee * D + KcalPerTenthKg * N) * cnt, D * total)
  IN Return(fac, msg)

\* the try block, lines 82-120
EngineBody(user_id, weight_data, food_data, session, env) ==
  IF env.db = "fail" THEN Raise
  ELSE IF weight_data = <<>> \/ food_data = <<>> THEN Return(Neutral, "Not enough data")
  ELSE
  LET w == FilterUser(weight_data, user_id)
      f == FilterUser(food_data, user_id)
  IN  IF Len(w) < MinSamples THEN Return(Neutral, "Need 5+ weigh-ins")
      ELSE Regression(w, f, weight_data, SessionTDEE(session), env)

run_calibration_engine_uncaught(user_id, weight_data, food_data, session, env) ==
  EngineBody(user_id, weight_data, food_data, session, env)

\* try / except Exception, lines 81-124
run_calibration_engine(user_id, weight_data, food_data, session, env) ==
  LET b == EngineBody(user_id, weight_data, food_data, session, env)
  IN  IF b.kind = "raise" THEN Return(Neutral, "Insufficient Data") ELSE b

\* what the environment does during a call: the store answers or raises, and
\* LAPACK raises or returns NaN on a fit over a single day
Envs == {[db |-> "ok", svd |-> "raise"], [db |-> "ok", svd |-> "nan"],
         [db |-> "fail", svd |-> "raise"]}

-----------------------------------------------------------------------------
(* State shared by the specifications *)

NoCall == [kind |-> "none"]
NoSession == [k \in {} |-> 0]          \* an empty st.session_state

\* dict assignment d[key] = v
DictSet(d, key, v) == [k \in (DOMAIN d) \cup {key} |-> IF k = key THEN v ELSE d[k]]

IdleTdee == [age |-> 50, gender |-> "Male", height |-> 160, weight |-> 70,
             activity |-> "Sedentary", done |-> FALSE, ret |-> 0]

WeightRow(d, id, w) == [Date |-> d, User_ID |-> id, Weight_kg |-> w]
FoodRow(id, raw, final) == [User_ID |-> id, Raw_Cals |-> raw, Final_Cals |-> final]

\* Weight_Logs as earlier sessions left it
FallingHistory(id) ==
  <<WeightRow(DateCell(0), id, IntCell(800)), WeightRow(DateCell(1), id, IntCell(798)),
    WeightRow(DateCell(2), id, IntCell(796)), WeightRow(DateCell(3), id, IntCell(794))>>
SameDayHistory(id) ==
  [i \in 1..4 |-> WeightRow(DateCell(0), id, IntCell(700))]

WeightHistories ==
  {<<>>, FallingHistory(IntCell(7)), FallingHistory(StrCell("Mom")),
   SameDayHistory(StrCell("Mom"))}

\* the rows Weight_Logs started with: its longest prefix that is a history
HistoryLen(rows) ==
  LET lens == {Len(h) : h \in {g \in WeightHistories :
                 Len(g) <= Len(rows) /\ SubSeq(rows, 1, Len(g)) = g}}
  IN  CHOOSE m \in lens : \A k \in lens : k <= m

CanAppendWeight(max) == Len(Weight_Logs) < HistoryLen(Weight_Logs) + max

\* Food_Logs as earlier sessions left it
FoodHistories ==
  {<<>>, <<FoodRow(IntCell(7), IntCell(1400), IntCell(1400)),
           FoodRow(IntCell(7), IntCell(1600), IntCell(1600))>>}

FoodHistoryLen(rows) ==
  IF Len(rows) >= 2 /\ SubSeq(rows, 1, 2) \in FoodHistories THEN 2 ELSE 0

\* the day after the last weigh-in of the history
FirstDay == FallingHistory(StrCell("Mom"))[4].Date.d + 1

-----------------------------------------------------------------------------
(* SpecTdee: calculate_tdee applied to bounded inputs *)

Ages == {50, 90}
Genders == {"Male", "Female"}
Heights == {0, 160, 161}
Weights == {0, 70, 150}
Activities == {"Sedentary", "Lightly Active", "Moderately Active", "Very Active",
               "Athlete", ""}

InitTdee ==
  /\ User_Profiles = <<>> /\ Weight_Logs = <<>> /\ Food_Logs = <<>>
  /\ session_state = NoSession /\ page = "login" /\ today = 0
  /\ calibration = NoCall
  /\ tdee_call \in [age : Ages, gender : Genders, height : Heights, weight : Weights,
                    activity : Activities, done : {FALSE}, ret : {0}]

CallTdee ==
  /\ ~tdee_call.done
  /\ tdee_call' = [tdee_call EXCEPT
        !.done = TRUE,
        !.ret = calculate_tdee(tdee_call.age, tdee_call.gender, tdee_call.height,
                               tdee_call.weight, tdee_call.activity)]
  /\ UNCHANGED <<store, session_state, page, today, calibration>>

NextTdee == CallTdee

SpecTdee == InitTdee /\ [][NextTdee]_vars

-----------------------------------------------------------------------------
(* SpecEngine: run_calibration_engine over worksheet contents of any origin *)

EngineUsers == {"7", "Mom"}
EngineIds == {IntCell(7), StrCell("Mom")}

SomeProfile == [User_ID |-> "7", Age |-> 50, Gender |-> "Male", Height |-> 160,
                Weight |-> 70, Activity |-> "Sedentary", TDEE |-> 1746,
                Inflation_Factor |-> 100]

NewWeightRows ==
  {WeightRow(DateCell(4), id, IntCell(800)) : id \in EngineIds}
  \cup {WeightRow(DateCell(4), IntCell(7), IntCell(600)),
        WeightRow(StrCell("soon"), IntCell(7), IntCell(792)),
        WeightRow(DateCell(0), StrCell("Mom"), IntCell(700)),
        WeightRow(DateCell(4), StrCell("Mom"), StrCell(""))}

NewFoodRows ==
  {FoodRow(id, IntCell(416), IntCell(416)) : id \in EngineIds}
  \cup {FoodRow(IntCell(7), IntCell(-100), IntCell(-100)),
        FoodRow(IntCell(7), StrCell("n/a"), StrCell("n/a"))}

InitEngine ==
  /\ User_Profiles = <<>>
  /\ Weight_Logs \in WeightHistories \ {FallingHistory(StrCell("Mom"))}
  /\ Food_Logs \in FoodHistories
  /\ session_state \in {NoSession, DictSet(NoSession, "profile", SomeProfile)}
  /\ page = "dashboard" /\ today = 0
  /\ calibration = NoCall
  /\ tdee_call = IdleTdee

\* a row of Weight_Logs as line 83 will read it
PutWeightRow(r) ==
  /\ CanAppendWeight(MaxPutWeights)
  /\ Weight_Logs' = Append(Weight_Logs, r)
  /\ calibration' = NoCall
  /\ UNCHANGED <<User_Profiles, Food_Logs, session_state, page, today, tdee_call>>

\* a row of Food_Logs as line 84 will read it
PutFoodRow(r) ==
  /\ Len(Food_Logs) < FoodHistoryLen(Food_Logs) + MaxPutFoods
  /\ Food_Logs' = Append(Food_Logs, r)
  /\ calibration' = NoCall
  /\ UNCHANGED <<User_Profiles, Weight_Logs, session_state, page, today, tdee_call>>

Call(user_id, env) ==
  [kind |-> "call", user_id |-> user_id, env |-> env,
   ret |-> run_calibration_engine(user_id, Weight_Logs, Food_Logs, session_state, env)]

RunEngine(user_id, env) ==
  /\ calibration' = Call(user_id, env)
  /\ UNCHANGED <<store, session_state, page, today, tdee_call>>

NextEngine ==
  \/ \E r \in NewWeightRows : PutWeightRow(r)
  \/ \E r \in NewFoodRows : PutFoodRow(r)
  \/ \E u \in EngineUsers, env \in Envs : RunEngine(u, env)

SpecEngine == InitEngine /\ [][NextEngine]_vars

Called == calibration.kind = "call"

\* C1: the factor returned by run_calibration_engine lies in [0.8, 1.5] on every
\* return path
FactorInRange ==
  Called => /\ calibration.ret.kind = "return"
            /\ calibration.ret.fac >= 80 /\ calibration.ret.fac <= 150

-----------------------------------------------------------------------------
(* Properties of run_calibration_engine, stated over the call just made *)

\* the rows of a worksheet that are the user's: the identifier cell is the
\* user's text, or the number that text denotes
IsOwn(r, user_id) == r.User_ID = StrCell(user_id) \/ r.User_ID = Numericise(user_id)
OwnIdx(rows, user_id) == {i \in DOMAIN rows : IsOwn(rows[i], user_id)}
OwnRows(rows, user_id) == SelectSeq(rows, LAMBDA r : IsOwn(r, user_id))

CallUser == calibration.user_id
OwnW == OwnIdx(Weight_Logs, CallUser)
OwnF == OwnIdx(Food_Logs, CallUser)
Ret == calibration.ret

EarlyMessages == {"Not enough data", "Need 5+ weigh-ins", "Insufficient Data"}
Fallback == [kind |-> "return", fac |-> 100, msg |-> "Insufficient Data"]

\* C1 witness: a computed ratio above 1.5 came back as 1.5
FactorInRangeWitness ==
  /\ Called /\ Ret.kind = "return" /\ Ret.fac = 150 /\ Ret.msg \notin EarlyMessages

\* C2 as stated: fewer than 5 weight samples of the user give exactly
\* (1.0, "insufficient data")
FewSamplesLiteral ==
  (Called /\ Cardinality(OwnW) < 5)
    => Ret = [kind |-> "return", fac |-> 100, msg |-> "insufficient data"]

\* C2 amended: fewer than 5 weight samples of the user give the factor 1.0 and the
\* message "Insufficient Data" when the store access failed, "Not enough data"
\* when either worksheet is empty, "Need 5+ weigh-ins" otherwise, whatever
\* Food_Logs contains
FewSamplesNeutral ==
  (Called /\ Cardinality(OwnW) < 5)
    => /\ Ret.kind = "return" /\ Ret.fac = 100
       /\ Ret.msg = IF calibration.env.db = "fail" THEN "Insufficient Data"
                    ELSE IF Weight_Logs = <<>> \/ Food_Logs = <<>> THEN "Not enough data"
                    ELSE "Need 5+ weigh-ins"

FewSamplesWitness ==
  /\ Called /\ Cardinality(OwnW) = 4 /\ OwnF # {}
  /\ Ret = [kind |-> "return", fac |-> 100, msg |-> "Need 5+ weigh-ins"]

BadOwnDate == \E i \in OwnW : Weight_Logs[i].Date.t # "date"
BadWeight == \E i \in DOMAIN Weight_Logs : Weight_Logs[i].Weight_kg.t # "int"
BadOwnCals == \E i \in OwnF : Food_Logs[i].Final_Cals.t # "int"
OneDay == \A i, j \in OwnW : Weight_Logs[i].Date = Weight_Logs[j].Date
FitRaises == OneDay /\ calibration.env.svd = "raise"
Fails ==
  \/ calibration.env.db = "fail"
  \/ /\ Weight_Logs # <<>> /\ Food_Logs # <<>> /\ Cardinality(OwnW) >= 5
     /\ (BadOwnDate \/ BadWeight \/ BadOwnCals \/ FitRaises)

\* C4 as stated: the engine never raises and any failure inside it ends in
\* (1.0, "insufficient data")
FailureLiteral ==
  Called => /\ Ret.kind = "return"
            /\ (Fails => Ret = [kind |-> "return", fac |-> 100,
                                msg |-> "insufficient data"])

\* C4 amended: the engine never raises; any exception inside it (store access
\* error, malformed date, non-numeric weight or calorie field, a fit that
\* raises) ends in the return value (1.0, "Insufficient Data")
FailureFallback ==
  Called => /\ Ret.kind = "return"
            /\ (Fails => Ret = Fallback)

FailureWitness ==
  /\ Called /\ calibration.env.db = "ok" /\ BadOwnDate /\ Cardinality(OwnW) >= 5
  /\ Food_Logs # <<>> /\ Ret = Fallback

\* C5: rows of other users never change a user's result: a step that leaves the
\* user's own weight and food rows as they were leaves the pair returned for that
\* user as it was
NonInterference ==
  [][\A u \in EngineUsers, env \in Envs :
       (/\ OwnRows(Weight_Logs', u) = OwnRows(Weight_Logs, u)
        /\ OwnRows(Food_Logs', u) = OwnRows(Food_Logs, u)
        /\ session_state' = session_state)
       => run_calibration_engine(u, Weight_Logs', Food_Logs', session_state', env)
            = run_calibration_engine(u, Weight_Logs, Food_Logs, session_state, env)]_vars

\* C9: the quantities of the claim, from the user's rows.  The slope is the
\* least-squares slope in its centred form, sum((x-mx)(y-my)) / sum((x-mx)^2),
\* scaled by n^2: slope = SlopeNum / (10 * SlopeDen) kg per day.
SamplesN == Cardinality(OwnW)
DaySum == SumOver([i \in OwnW |-> Weight_Logs[i].Date.d], OwnW)
KgSum == SumOver([i \in OwnW |-> Weight_Logs[i].Weight_kg.n], OwnW)
SlopeNum ==
  SumOver([i \in OwnW |-> (SamplesN * Weight_Logs[i].Date.d - DaySum)
                          * (SamplesN * Weight_Logs[i].Weight_kg.n - KgSum)], OwnW)
SlopeDen ==
  SumOver([i \in OwnW |-> (SamplesN * Weight_Logs[i].Date.d - DaySum)
                          * (SamplesN * Weight_Logs[i].Date.d - DaySum)], OwnW)
CalsSum == SumOver([i \in OwnF |-> Food_Logs[i].Final_Cals.n], OwnF)
MeanPositive == OwnF # {} /\ CalsSum > 0
\* ratio = RatioNum / RatioDen = (TDEE + slope * 7700) / mean(Final_Cals)
RatioNum == (SessionTDEE(session_state) * SlopeDen + 770 * SlopeNum) * Cardinality(OwnF)
RatioDen == SlopeDen * CalsSum

Computes ==
  /\ Called /\ calibration.env.db = "ok" /\ SamplesN >= 5
  /\ ~BadOwnDate /\ ~BadWeight /\ ~BadOwnCals

-----------------------------------------------------------------------------
(* Spec: the Streamlit script, one action per script run (a widget event and *)
(* the st.rerun() it ends with).  db is whether the store answers the profile *)
(* lookup of that run.                                                        *)

Users == {"Mom", "7"}          \* the "Mom" button; a nickname or ?user= link
RawCals == {333}               \* calories the estimation client returns
LoggedWeights == {792}         \* Weight (kg) number_input, in tenths
Db == {"ok", "fail"}

None == [kind |-> "None"]

ProfileRow(id, age, gender, height, weight, activity, tdee, factor) ==
  [User_ID |-> id, Age |-> age, Gender |-> gender, Height |-> height,
   Weight |-> weight, Activity |-> activity, TDEE |-> tdee,
   Inflation_Factor |-> factor]

\* the setup form's inputs
ProfileInputs ==
  {[age |-> 50, gender |-> "Male", height |-> 160, weight |-> 70,
    activity |-> "Sedentary"],
   [age |-> 50, gender |-> "Female", height |-> 160, weight |-> 70,
    activity |-> "Moderately Active"]}

\* a profile row whose Inflation_Factor was set in the sheet
TunedProfile ==
  ProfileRow(StrCell("Mom"), 50, "Male", 160, 70, "Sedentary", 1746, 125)

\* get_or_create_profile, lines 56-75, over the rows the worksheet returns: the
\* first row of the user as a dict with User_ID as text, None when there is none
\* or the store raises
get_or_create_profile(user_id, profiles, db) ==
  IF db = "fail" THEN None
  ELSE LET user_row == SelectSeq(profiles, LAMBDA r : ToStr(r.User_ID) = user_id)
       IN  IF user_row # <<>>
           THEN [user_row[1] EXCEPT !.User_ID = ToStr(user_row[1].User_ID)]
           ELSE None

USER == session_state["user_id"]
LoggedIn == "user_id" \in DOMAIN session_state

\* lines 152-187 of a run that handles no widget: the session and the page it
\* leaves
Render(session, profiles, db) ==
  LET PROFILE == get_or_create_profile(session["user_id"], profiles, db)
  IN  IF PROFILE = None
      THEN [session |-> session, page |-> "setup"]
      ELSE LET s1 == DictSet(session, "profile", PROFILE)
               s2 == IF "log_stage" \in DOMAIN s1 THEN s1
                     ELSE DictSet(s1, "log_stage", "input")
           IN  [session |-> s2, page |-> "dashboard"]

Show(r) == session_state' = r.session /\ page' = r.page

\* the run reaches the tabs: the dashboard was on screen and the profile lookup
\* of line 153 finds a row
Dashboard(db) ==
  /\ LoggedIn /\ page = "dashboard"
  /\ get_or_create_profile(USER, User_Profiles, db) # None

\* the dict line 173 stores, with the widget state of this run
Current(db) == Render(session_state, User_Profiles, db).session

\* INFLATION_FACTOR, line 174
INFLATION_FACTOR(db) == get_or_create_profile(USER, User_Profiles, db).Inflation_Factor

\* int(data['cals'] * INFLATION_FACTOR), line 238
FinalCalsUnscaled(cals, factor) == cals

FinalCals(cals, factor) == Trunc(cals * factor, 100)

Init ==
  /\ User_Profiles = <<>>
  /\ Weight_Logs \in {<<>>, FallingHistory(StrCell("Mom"))}
  /\ Food_Logs = <<>>
  /\ session_state = NoSession
  /\ page = "login"
  /\ today = FirstDay
  /\ calibration = NoCall
  /\ tdee_call = IdleTdee

\* lines 132-148: a login button, then the rerun
Login(u, db) ==
  /\ ~LoggedIn
  /\ Show(Render(DictSet(session_state, "user_id", u), User_Profiles, db))
  /\ calibration' = NoCall
  /\ UNCHANGED <<store, today, tdee_call>>

\* lines 129-130: a run with ?user= in the URL
MagicLink(u, db) ==
  /\ Show(Render(DictSet(session_state, "user_id", u), User_Profiles, db))
  /\ calibration' = NoCall
  /\ UNCHANGED <<store, today, tdee_call>>

\* a run that handles no widget event: a refresh, an Analyze without input, a
\* dashboard button pressed in a run whose profile lookup fails (st.stop, 171)
Rerun(db) ==
  /\ LoggedIn
  /\ Show(Render(session_state, User_Profiles, db))
  /\ calibration' = NoCall
  /\ UNCHANGED <<store, today, tdee_call>>

\* lines 153-171: Save Profile submitted on the setup form; db2 is the lookup of
\* the rerun
SaveProfile(in, db, db2) ==
  /\ LoggedIn /\ page = "setup"
  /\ IF get_or_create_profile(USER, User_Profiles, db) # None
     THEN /\ UNCHANGED User_Profiles               \* the form is not rendered
          /\ Show(Render(session_state, User_Profiles, db))
     ELSE /\ Len(User_Profiles) < MaxProfiles
          /\ User_Profiles' = Append(User_Profiles,
               ProfileRow(Numericise(USER), in.age, in.gender, in.height, in.weight,
                          in.activity,
                          calculate_tdee(in.age, in.gender, in.height, in.weight,
                                         in.activity),
                          100))
          /\ Show(Render(session_state, User_Profiles', db2))
  /\ calibration' = NoCall
  /\ UNCHANGED <<Weight_Logs, Food_Logs, today, tdee_call>>

\* lines 207-228: Analyze with input, the client answers "name | cals | flag"
Analyze(cals, db, db2) ==
  /\ Dashboard(db)
  /\ Current(db)["log_stage"] = "input"
  /\ LET s1 == DictSet(Current(db), "temp_log", [cals |-> cals])
         s2 == DictSet(s1, "log_stage", "review")
     IN  Show(Render(s2, User_Profiles, db2))
  /\ calibration' = NoCall
  /\ UNCHANGED <<store, today, tdee_call>>

\* lines 232-248: Save on the review stage
Save(db, db2) ==
  /\ Dashboard(db)
  /\ Current(db)["log_stage"] = "review"
  /\ Len(Food_Logs) < MaxMeals
  /\ LET data == Current(db)["temp_log"]
         final_cals == FinalCals(data.cals, INFLATION_FACTOR(db))
     IN  Food_Logs' = Append(Food_Logs,
           FoodRow(Numericise(USER), IntCell(data.cals), IntCell(final_cals)))
  /\ Show(Render(DictSet(Current(db), "log_stage", "input"), User_Profiles, db2))
  /\ calibration' = NoCall
  /\ UNCHANGED <<User_Profiles, Weight_Logs, today, tdee_call>>

\* lines 250-252
Cancel(db, db2) ==
  /\ Dashboard(db)
  /\ Current(db)["log_stage"] = "review"
  /\ Show(Render(DictSet(Current(db), "log_stage", "input"), User_Profiles, db2))
  /\ calibration' = NoCall
  /\ UNCHANGED <<store, today, tdee_call>>

\* lines 255-258: Run Calibration; the factor and message go to st.info only
RunCalibration(db, env) ==
  /\ Dashboard(db)
  /\ session_state' = Current(db)
  /\ page' = "dashboard"
  /\ calibration' =
       [kind |-> "call", user_id |-> USER, env |-> env,
        ret |-> run_calibration_engine(USER, Weight_Logs, Food_Logs, Current(db), env)]
  /\ UNCHANGED <<store, today, tdee_call>>

\* lines 261-266: Log Weight
LogWeight(w, db) ==
  /\ Dashboard(db)
  /\ CanAppendWeight(MaxWeighIns)
  /\ Weight_Logs' = Append(Weight_Logs,
       WeightRow(DateCell(today), Numericise(USER), IntCell(w)))
  /\ session_state' = Current(db)
  /\ page' = "dashboard"
  /\ calibration' = NoCall
  /\ UNCHANGED <<User_Profiles, Food_Logs, today, tdee_call>>

\* datetime.now() moves to the next day
Tick ==
  /\ today < MaxDay
  /\ today' = today + 1
  /\ UNCHANGED <<store, session_state, page, calibration, tdee_call>>

Next ==
  \/ \E u \in Users, db \in Db : Login(u, db)
  \/ \E db \in Db : Rerun(db)
  \/ \E u \in Users, db \in Db : MagicLink(u, db)
  \/ \E in \in ProfileInputs, db \in Db, db2 \in Db : SaveProfile(in, db, db2)
  \/ \E c \in RawCals, db \in Db, db2 \in Db : Analyze(c, db, db2)
  \/ \E db \in Db, db2 \in Db : Save(db, db2)
  \/ \E db \in Db, db2 \in Db : Cancel(db, db2)
  \/ \E db \in Db, env \in Envs : RunCalibration(db, env)
  \/ \E w \in LoggedWeights, db \in Db : LogWeight(w, db)
  \/ Tick

Spec == Init /\ [][Next]_vars

\* SpecTuned: the same script over a sheet in which the profile's
\* Inflation_Factor has been set to 1.25
InitTuned ==
  /\ User_Profiles = <<TunedProfile>>
  /\ Weight_Logs \in {<<>>, FallingHistory(StrCell("Mom"))}
  /\ Food_Logs = <<>>
  /\ session_state = NoSession
  /\ page = "login"
  /\ today = FirstDay
  /\ calibration = NoCall
  /\ tdee_call = IdleTdee

SpecTuned == InitTuned /\ [][Next]_vars

-----------------------------------------------------------------------------
(* Properties of the script *)

\* the Inflation_Factor of the user's row in User_Profiles (the first, if several)
StoredFactor(user_id) ==
  User_Profiles[MinOf(OwnIdx(User_Profiles, user_id))].Inflation_Factor

CalibrationWrittenBack ==
  Called => StoredFactor(CallUser) = Ret.fac

\* C10: User_Profiles holds at most one row for each user identifier
OneProfilePerUser ==
  \A u \in Users : Cardinality(OwnIdx(User_Profiles, u)) <= 1

-----------------------------------------------------------------------------
(* Property of calculate_tdee *)

\* bmr * m of the claim, times 4000
ClaimedProduct ==
  LET c == tdee_call
      bmr4 == 4 * (10 * c.weight) + 25 * c.height - 4 * (5 * c.age)
              + (IF c.gender = "Male" THEN 4 * 5 ELSE -(4 * 161))
      m == CASE c.activity = "Sedentary" -> 1200
             [] c.activity = "Lightly Active" -> 1375
             [] c.activity = "Moderately Active" -> 1550
             [] c.activity = "Very Active" -> 1725
             [] OTHER -> 1200
  IN  bmr4 * m

\* C8: calculate_tdee returns bmr * m truncated to an integer, with m = 1.2 for an
\* activity outside the table; (50, Male, 160, 70, Sedentary) gives 1746 and
\* (50, Female, 160, 70, Sedentary) gives 1546
TdeeTruncates ==
  tdee_call.done =>
    LET P == ClaimedProduct
        r == tdee_call.ret
        standard == /\ tdee_call.age = 50 /\ tdee_call.height = 160
                    /\ tdee_call.weight = 70 /\ tdee_call.activity = "Sedentary"
    IN  /\ P >= 0 => (r >= 0 /\ 4000 * r <= P /\ P < 4000 * (r + 1))
        /\ P < 0 => (r <= 0 /\ 4000 * r >= P /\ P > 4000 * (r - 1))
        /\ (standard /\ tdee_call.gender = "Male") => r = 1746
        /\ (standard /\ tdee_call.gender = "Female") => r = 1546

TdeeWitness ==
  /\ tdee_call.done /\ tdee_call.activity = "Athlete" /\ tdee_call.gender = "Female"
  /\ tdee_call.age = 50 /\ tdee_call.height = 160 /\ tdee_call.weight = 70
  /\ tdee_call.ret = 1546

====
